---- MODULE Spec2Model ----
(***************************************************************************)
(* Model of autopip (src/main.py): extract the imports of a script, then   *)
(* for every imported module classify it (stdlib / installed / missing),   *)
(* install the resolved package, and on failure run the AI fallback with   *)
(* its dry-run validation, automatic attempt and confirmation prompt.      *)
(* Every call to an external party (pip, the AI service, the user, the     *)
(* file system) is one step whose outcome is chosen by the environment.    *)
(***************************************************************************)
EXTENDS Integers, Sequences, FiniteSets, TLC

VARIABLES pc, argc, imports, todo, module, package, ai_suggestion,
          suggested_pkg, log, out, classified, outcome, exitCode

vars == <<pc, argc, imports, todo, module, package, ai_suggestion,
          suggested_pkg, log, out, classified, outcome, exitCode>>

(* ------------------------------ bounds --------------------------------- *)

\* largest import set extract_imports returns in the model
MaxImports == 2

(* ------------------------- data of the program ------------------------- *)

\* Python's None where a string is expected
None == "None"

COMMON_MAP ==
    ("bs4" :> "beautifulsoup4") @@ ("cv2" :> "opencv-python") @@
    ("sklearn" :> "scikit-learn") @@ ("PIL" :> "pillow") @@
    ("yaml" :> "pyyaml") @@ ("Crypto" :> "pycryptodome")

\* stdlib_list.stdlib_list(version): the part of it the model's scripts import
stdlib == {"os"}

\* module names a script of the model may import
ModuleNames == (DOMAIN COMMON_MAP) \cup stdlib \cup {"requests"}

resolve_package_identity(m) == m

resolve_package(m) == IF m \in DOMAIN COMMON_MAP THEN COMMON_MAP[m] ELSE m

(* ----- the AI reply: None (the call raised) or a text, as its words ----- *)

NoReply == [none |-> TRUE, text |-> <<>>]

Text(t) == [none |-> FALSE, text |-> t]

\* what ask_ai_for_package can return
Replies ==
    { NoReply,
      Text(<<>>),
      Text(<<"install", "pyyaml">>),
      Text(<<"pip", "install", "pyyaml">>),
      Text(<<"Use:", "pip", "install", "ruamel-yaml">>) }

\* words that [\w\-]+ matches from their first character on
PackageWords == {"pyyaml", "ruamel-yaml"}

\* Python truth value of ai_suggestion (None and "" are false)
Truthy(r) == ~r.none /\ r.text # <<>>

\* re.search(r"pip install ([\w\-]+)", s or "") followed by
\* match.group(1) if match else None
re_search(r) ==
    LET t == IF r.none THEN <<>> ELSE r.text
        hits == { i \in 1..Len(t) : /\ i + 2 <= Len(t)
                                    /\ t[i] = "pip"
                                    /\ t[i + 1] = "install"
                                    /\ t[i + 2] \in PackageWords }
    IN  IF hits = {} THEN None
        ELSE t[(CHOOSE i \in hits : \A j \in hits : i <= j) + 2]

(* ------------- the answer typed at the prompt, as characters ------------ *)

Answers == { <<"y">>, <<"Y">>, <<" ", "Y", " ">>, <<>>, <<"n">> }

RECURSIVE lstrip(_)
lstrip(s) == IF s # <<>> /\ Head(s) = " " THEN lstrip(Tail(s)) ELSE s

RECURSIVE rstrip(_)
rstrip(s) == IF s # <<>> /\ s[Len(s)] = " "
             THEN rstrip(SubSeq(s, 1, Len(s) - 1)) ELSE s

strip(s) == rstrip(lstrip(s))

lower(s) == [i \in 1..Len(s) |-> IF s[i] = "Y" THEN "y" ELSE s[i]]

(* ------------------------------ outcomes ------------------------------- *)

InstallResults == {"ok", "Exception", "FileNotFoundError"}

DryRunResults == {"ok", "CalledProcessError", "FileNotFoundError"}

Install(pkg, res) == [op |-> "try_install", pkg |-> pkg, res |-> res]

DryRun(pkg, res) == [op |-> "is_real_pypi_package", pkg |-> pkg, res |-> res]

Ask(n, r) == [op |-> "ask_ai_for_package", query |-> n, reply |-> r]

Prompt(pkg, a) == [op |-> "input", pkg |-> pkg, answer |-> a]

(* ------------------------------- state --------------------------------- *)

Init ==
    /\ pc = "main"
    /\ argc \in {1, 2}
    /\ imports = {}
    /\ todo = {}
    /\ module = None
    /\ package = None
    /\ ai_suggestion = NoReply
    /\ suggested_pkg = None
    /\ log = <<>>
    /\ out = <<>>
    /\ classified = [m \in ModuleNames |-> "Unclassified"]
    /\ outcome = [m \in ModuleNames |-> "Pending"]
    /\ exitCode = 0


(* ------------------- the pieces the steps are made of ------------------ *)

\* lines try_install prints (src/main.py 89, 92-94, 97)
try_install_out(res) ==
    CASE res = "ok" -> <<"Installed">>
      [] res = "FileNotFoundError" ->
            <<"pip not found", "ensurepip --upgrade", "install --upgrade pip">>
      [] OTHER -> <<"Failed to install">>

\* lines ask_ai_for_package prints (src/main.py 74)
ask_ai_out(r) == IF r.none THEN <<"AI request failed">> ELSE <<>>

Installed(l) ==
    \E i \in 1..Len(l) : l[i].op = "try_install" /\ l[i].res = "ok"

\* the iteration of the for loop is over: back to the loop head
Continue(l) ==
    /\ pc' = "for"
    /\ outcome' = [outcome EXCEPT ![module] =
                      IF Installed(l) THEN "Done" ELSE "Skip"]
    /\ exitCode' = exitCode

\* control moves on inside the iteration
Goto(p) ==
    /\ pc' = p
    /\ UNCHANGED <<outcome, exitCode>>

\* sys.exit(1), or an exception nobody catches: the interpreter exits with 1
Exit1 ==
    /\ pc' = "exit"
    /\ exitCode' = 1
    /\ UNCHANGED outcome

(* ------------------------------ __main__ ------------------------------- *)

\* Usage leaving with sys.exit(0)
Usage_exit0 ==
    /\ pc = "main"
    /\ argc < 2
    /\ out' = Append(out, "Usage")
    /\ pc' = "exit"
    /\ UNCHANGED <<argc, imports, todo, module, package, ai_suggestion,
                   suggested_pkg, log, classified, outcome, exitCode>>

\* src/main.py 172-174
Usage ==
    /\ pc = "main"
    /\ argc < 2
    /\ out' = Append(out, "Usage")
    /\ Exit1
    /\ UNCHANGED <<argc, imports, todo, module, package, ai_suggestion,
                   suggested_pkg, log, classified>>

\* src/main.py 176-178 with extract_imports (35-48): the file cannot be
\* opened or parsed (the exception escapes), or a set of names comes back
extract_imports ==
    /\ pc = "main"
    /\ argc >= 2
    /\ \/ /\ log' = Append(log, [op |-> "extract_imports", res |-> "raise"])
          /\ out' = Append(out, "Traceback")
          /\ Exit1
          /\ UNCHANGED <<imports, todo>>
       \/ /\ \E S \in SUBSET ModuleNames :
               /\ Cardinality(S) <= MaxImports
               /\ imports' = S
               /\ todo' = S
          /\ log' = Append(log, [op |-> "extract_imports", res |-> "ok"])
          /\ out' = Append(out, "Found imports")
          /\ Goto("for")
    /\ UNCHANGED <<argc, module, package, ai_suggestion, suggested_pkg,
                   classified>>

(* --------------------------- install_missing --------------------------- *)

\* src/main.py 118-121: the next module of the set, in any order; a stdlib
\* module is reported and the loop continues
for_module ==
    /\ pc = "for"
    /\ \E m \in todo :
         /\ module' = m
         /\ todo' = todo \ {m}
         /\ IF m \in stdlib
            THEN /\ out' = <<"is part of Python stdlib">>
                 /\ pc' = "for"
                 /\ classified' = [classified EXCEPT ![m] = "StdLib"]
                 /\ outcome' = [outcome EXCEPT ![m] = "Skip"]
            ELSE /\ out' = <<>>
                 /\ pc' = "find_spec"
                 /\ UNCHANGED <<classified, outcome>>
    /\ log' = <<>>
    /\ UNCHANGED <<argc, imports, package, ai_suggestion, suggested_pkg,
                   exitCode>>

\* find_spec with the test of line 123 inverted
find_spec_inverted ==
    /\ pc = "find_spec"
    /\ \E res \in {"spec", "None"} :
         /\ log' = Append(log, [op |-> "find_spec", res |-> res])
         /\ IF res = "None"
            THEN /\ out' = Append(out, "already installed")
                 /\ classified' = [classified EXCEPT ![module] = "Missing"]
                 /\ Continue(log')
            ELSE /\ out' = out
                 /\ classified' = [classified EXCEPT ![module] = "Installed"]
                 /\ Goto("direct_install")
    /\ UNCHANGED <<argc, imports, todo, module, package, ai_suggestion,
                   suggested_pkg>>

\* src/main.py 123, 164-165: importlib.util.find_spec(module)
find_spec ==
    /\ pc = "find_spec"
    /\ \E res \in {"spec", "None"} :
         /\ log' = Append(log, [op |-> "find_spec", res |-> res])
         /\ IF res # "None"
            THEN /\ out' = Append(out, "already installed")
                 /\ classified' = [classified EXCEPT ![module] = "Installed"]
                 /\ Continue(log')
            ELSE /\ out' = out
                 /\ classified' = [classified EXCEPT ![module] = "Missing"]
                 /\ Goto("direct_install")
    /\ UNCHANGED <<argc, imports, todo, module, package, ai_suggestion,
                   suggested_pkg>>

\* direct_install without the handler of line 96: the failure escapes
direct_install_raises ==
    /\ pc = "direct_install"
    /\ package' = resolve_package(module)
    /\ \E res \in InstallResults :
         /\ log' = Append(log, Install(package', res))
         /\ CASE res = "ok" ->
                   /\ out' = out \o <<"Installing">> \o try_install_out(res)
                   /\ Continue(log')
              [] res = "FileNotFoundError" ->
                   /\ out' = out \o <<"Installing">> \o try_install_out(res)
                   /\ Exit1
              [] OTHER ->
                   /\ out' = out \o <<"Installing", "Traceback">>
                   /\ Exit1
    /\ UNCHANGED <<argc, imports, todo, module, ai_suggestion, suggested_pkg,
                   classified>>

\* direct_install with the test of line 128 inverted
direct_install_if_success ==
    /\ pc = "direct_install"
    /\ package' = resolve_package(module)
    /\ \E res \in InstallResults :
         /\ log' = Append(log, Install(package', res))
         /\ out' = out \o <<"Installing">> \o try_install_out(res)
         /\ CASE res = "ok" -> Goto("ask_initial")
              [] res = "FileNotFoundError" -> Exit1
              [] OTHER -> Continue(log')
    /\ UNCHANGED <<argc, imports, todo, module, ai_suggestion, suggested_pkg,
                   classified>>

\* src/main.py 124-128
direct_install ==
    /\ pc = "direct_install"
    /\ package' = resolve_package(module)
    /\ \E res \in InstallResults :
         /\ log' = Append(log, Install(package', res))
         /\ out' = out \o <<"Installing">> \o try_install_out(res)
         /\ CASE res = "ok" -> Continue(log')
              [] res = "FileNotFoundError" -> Exit1
              [] OTHER -> Goto("ask_initial")
    /\ UNCHANGED <<argc, imports, todo, module, ai_suggestion, suggested_pkg,
                   classified>>


\* ask_initial with lines 134-163 outside the test of line 130: after an
\* empty or failed reply the tests go on with the suggested_pkg left behind
ask_initial_dedented ==
    /\ pc = "ask_initial"
    /\ \E r \in Replies :
         /\ ai_suggestion' = r
         /\ log' = Append(log, Ask(1, r))
         /\ out' = out \o ask_ai_out(r)
         /\ suggested_pkg' = IF Truthy(r) THEN re_search(r) ELSE suggested_pkg
         /\ IF suggested_pkg' # None
            THEN Goto("check_initial")
            ELSE Continue(log')
    /\ UNCHANGED <<argc, imports, todo, module, package, classified>>

\* src/main.py 129-133, and 135/145 when there is no name to check
ask_initial ==
    /\ pc = "ask_initial"
    /\ \E r \in Replies :
         /\ ai_suggestion' = r
         /\ log' = Append(log, Ask(1, r))
         /\ out' = out \o ask_ai_out(r)
         /\ IF Truthy(r)
            THEN /\ suggested_pkg' = re_search(r)
                 /\ IF suggested_pkg' # None
                    THEN Goto("check_initial")
                    ELSE Continue(log')
            ELSE /\ suggested_pkg' = suggested_pkg
                 /\ Continue(log')
    /\ UNCHANGED <<argc, imports, todo, module, package, classified>>

\* check_initial giving up at once when the dry run rejects the name
check_initial_no_retry ==
    /\ pc = "check_initial"
    /\ \E res \in DryRunResults :
         /\ log' = Append(log, DryRun(suggested_pkg, res))
         /\ CASE res = "ok" ->
                   /\ out' = out
                   /\ Goto("check_candidate")
              [] res = "CalledProcessError" ->
                   /\ out' = Append(out, "is not a real PyPI package")
                   /\ Continue(log')
              [] OTHER ->
                   /\ out' = Append(out, "Traceback")
                   /\ Exit1
    /\ UNCHANGED <<argc, imports, todo, module, package, ai_suggestion,
                   suggested_pkg, classified>>

\* src/main.py 135-136: the dry run of the first suggestion
check_initial ==
    /\ pc = "check_initial"
    /\ \E res \in DryRunResults :
         /\ log' = Append(log, DryRun(suggested_pkg, res))
         /\ CASE res = "ok" ->
                   /\ out' = out
                   /\ Goto("check_candidate")
              [] res = "CalledProcessError" ->
                   /\ out' = Append(out, "is not a real PyPI package")
                   /\ Goto("ask_invalid")
              [] OTHER ->
                   /\ out' = Append(out, "Traceback")
                   /\ Exit1
    /\ UNCHANGED <<argc, imports, todo, module, package, ai_suggestion,
                   suggested_pkg, classified>>

\* src/main.py 137-142, and 145 when there is no name to check
ask_invalid ==
    /\ pc = "ask_invalid"
    /\ \E r \in Replies :
         /\ ai_suggestion' = r
         /\ log' = Append(log, Ask(2, r))
         /\ out' = out \o ask_ai_out(r)
         /\ suggested_pkg' = re_search(r)
         /\ IF suggested_pkg' # None
            THEN Goto("check_candidate")
            ELSE Continue(log')
    /\ UNCHANGED <<argc, imports, todo, module, package, classified>>

\* check_candidate without the test of the dry run's result
check_candidate_unchecked ==
    /\ pc = "check_candidate"
    /\ \E res \in DryRunResults :
         /\ log' = Append(log, DryRun(suggested_pkg, res))
         /\ CASE res = "FileNotFoundError" ->
                   /\ out' = Append(out, "Traceback")
                   /\ Exit1
              [] OTHER ->
                   /\ out' = out
                   /\ Goto("auto_install")
    /\ UNCHANGED <<argc, imports, todo, module, package, ai_suggestion,
                   suggested_pkg, classified>>

\* src/main.py 145: the dry run that guards the automatic attempt
check_candidate ==
    /\ pc = "check_candidate"
    /\ \E res \in DryRunResults :
         /\ log' = Append(log, DryRun(suggested_pkg, res))
         /\ CASE res = "ok" ->
                   /\ out' = out
                   /\ Goto("auto_install")
              [] res = "CalledProcessError" ->
                   /\ out' = out
                   /\ Continue(log')
              [] OTHER ->
                   /\ out' = Append(out, "Traceback")
                   /\ Exit1
    /\ UNCHANGED <<argc, imports, todo, module, package, ai_suggestion,
                   suggested_pkg, classified>>

\* src/main.py 146-147: the validated suggestion is installed right away
auto_install ==
    /\ pc = "auto_install"
    /\ \E res \in InstallResults :
         /\ log' = Append(log, Install(suggested_pkg, res))
         /\ CASE res = "ok" ->
                   /\ out' = out \o try_install_out(res)
                   /\ Goto("check_final")
              [] res = "FileNotFoundError" ->
                   /\ out' = out \o try_install_out(res)
                   /\ Exit1
              [] OTHER ->
                   /\ out' = out \o try_install_out(res)
                              \o <<"exists but failed to install">>
                   /\ Goto("ask_replacement")
    /\ UNCHANGED <<argc, imports, todo, module, package, ai_suggestion,
                   suggested_pkg, classified>>

\* ask_replacement searching ai_suggestion itself, not (ai_suggestion or ""):
\* re.search raises TypeError on None
ask_replacement_raises ==
    /\ pc = "ask_replacement"
    /\ \E r \in Replies :
         /\ ai_suggestion' = r
         /\ log' = Append(log, Ask(3, r))
         /\ IF r.none
            THEN /\ suggested_pkg' = suggested_pkg
                 /\ out' = out \o ask_ai_out(r) \o <<"Traceback">>
                 /\ Exit1
            ELSE /\ suggested_pkg' = re_search(r)
                 /\ IF suggested_pkg' # None
                    THEN /\ out' = out
                         /\ Goto("check_final")
                    ELSE /\ out' = Append(out, "No valid package name")
                         /\ Continue(log')
    /\ UNCHANGED <<argc, imports, todo, module, package, classified>>

\* src/main.py 148-153, and 155/162-163 when there is no name to check
ask_replacement ==
    /\ pc = "ask_replacement"
    /\ \E r \in Replies :
         /\ ai_suggestion' = r
         /\ log' = Append(log, Ask(3, r))
         /\ suggested_pkg' = re_search(r)
         /\ IF suggested_pkg' # None
            THEN /\ out' = out \o ask_ai_out(r)
                 /\ Goto("check_final")
            ELSE /\ out' = out \o ask_ai_out(r) \o <<"No valid package name">>
                 /\ Continue(log')
    /\ UNCHANGED <<argc, imports, todo, module, package, classified>>

\* check_final asking the AI again whenever the dry run rejects the name
check_final_retry ==
    /\ pc = "check_final"
    /\ \E res \in DryRunResults :
         /\ log' = Append(log, DryRun(suggested_pkg, res))
         /\ CASE res = "ok" ->
                   /\ out' = Append(out, "AI suggests")
                   /\ Goto("input")
              [] res = "CalledProcessError" ->
                   /\ out' = Append(out, "is not a real PyPI package")
                   /\ Goto("ask_replacement")
              [] OTHER ->
                   /\ out' = Append(out, "Traceback")
                   /\ Exit1
    /\ UNCHANGED <<argc, imports, todo, module, package, ai_suggestion,
                   suggested_pkg, classified>>

\* check_final installing the validated name without asking
check_final_auto ==
    /\ pc = "check_final"
    /\ \E res \in DryRunResults :
         /\ log' = Append(log, DryRun(suggested_pkg, res))
         /\ CASE res = "ok" ->
                   /\ out' = Append(out, "AI suggests")
                   /\ Goto("confirmed_install")
              [] res = "CalledProcessError" ->
                   /\ out' = Append(out, "No valid package name")
                   /\ Continue(log')
              [] OTHER ->
                   /\ out' = Append(out, "Traceback")
                   /\ Exit1
    /\ UNCHANGED <<argc, imports, todo, module, package, ai_suggestion,
                   suggested_pkg, classified>>

\* src/main.py 155-156, 162-163: the dry run that guards the prompt
check_final ==
    /\ pc = "check_final"
    /\ \E res \in DryRunResults :
         /\ log' = Append(log, DryRun(suggested_pkg, res))
         /\ CASE res = "ok" ->
                   /\ out' = Append(out, "AI suggests")
                   /\ Goto("input")
              [] res = "CalledProcessError" ->
                   /\ out' = Append(out, "No valid package name")
                   /\ Continue(log')
              [] OTHER ->
                   /\ out' = Append(out, "Traceback")
                   /\ Exit1
    /\ UNCHANGED <<argc, imports, todo, module, package, ai_suggestion,
                   suggested_pkg, classified>>

\* accepted with the empty answer taken as yes, as '(Y/n)' suggests
accepted_default_yes(choice) == choice = <<"y">> \/ choice = <<>>

\* choice == "y" or choice == "Y" (src/main.py 158)
accepted(choice) == choice = <<"y">> \/ choice = <<"Y">>

\* input asking again until the answer is y or n
input_again ==
    /\ pc = "input"
    /\ \/ \E a \in Answers :
            /\ log' = Append(log, Prompt(suggested_pkg, a))
            /\ CASE accepted(lower(strip(a))) ->
                      /\ out' = out
                      /\ Goto("confirmed_install")
                 [] lower(strip(a)) = <<"n">> ->
                      /\ out' = Append(out, "Skipped installing alternative")
                      /\ Continue(log')
                 [] OTHER ->
                      /\ out' = out
                      /\ Goto("input")
       \/ /\ log' = Append(log, [op |-> "input", pkg |-> suggested_pkg,
                                 answer |-> <<"EOFError">>])
          /\ out' = Append(out, "Traceback")
          /\ Exit1
    /\ UNCHANGED <<argc, imports, todo, module, package, ai_suggestion,
                   suggested_pkg, classified>>

\* src/main.py 157-158, 160-161: the prompt is answered, or stdin is at its
\* end and input() raises EOFError, which nobody catches
input ==
    /\ pc = "input"
    /\ \/ \E a \in Answers :
            /\ log' = Append(log, Prompt(suggested_pkg, a))
            /\ IF accepted(lower(strip(a)))
               THEN /\ out' = out
                    /\ Goto("confirmed_install")
               ELSE /\ out' = Append(out, "Skipped installing alternative")
                    /\ Continue(log')
       \/ /\ log' = Append(log, [op |-> "input", pkg |-> suggested_pkg,
                                 answer |-> <<"EOFError">>])
          /\ out' = Append(out, "Traceback")
          /\ Exit1
    /\ UNCHANGED <<argc, imports, todo, module, package, ai_suggestion,
                   suggested_pkg, classified>>

\* confirmed_install whose try_install has no handler of FileNotFoundError
\* of its own: the generic handler reports the failure and returns False
confirmed_install_no_exit ==
    /\ pc = "confirmed_install"
    /\ \E res \in InstallResults :
         /\ log' = Append(log, Install(suggested_pkg, res))
         /\ out' = out \o (IF res = "ok" THEN try_install_out(res)
                                         ELSE try_install_out("Exception"))
         /\ Continue(log')
    /\ UNCHANGED <<argc, imports, todo, module, package, ai_suggestion,
                   suggested_pkg, classified>>

\* src/main.py 159: the install the user agreed to; its result is dropped
confirmed_install ==
    /\ pc = "confirmed_install"
    /\ \E res \in InstallResults :
         /\ log' = Append(log, Install(suggested_pkg, res))
         /\ out' = out \o try_install_out(res)
         /\ IF res = "FileNotFoundError" THEN Exit1 ELSE Continue(log')
    /\ UNCHANGED <<argc, imports, todo, module, package, ai_suggestion,
                   suggested_pkg, classified>>

\* src/main.py 118, 179: the set is exhausted, install_missing returns and
\* the interpreter exits with 0
return ==
    /\ pc = "for"
    /\ todo = {}
    /\ pc' = "exit"
    /\ UNCHANGED <<argc, imports, todo, module, package, ai_suggestion,
                   suggested_pkg, log, out, classified, outcome, exitCode>>

Next ==
    \/ Usage
    \/ extract_imports
    \/ for_module
    \/ find_spec
    \/ direct_install
    \/ ask_initial
    \/ check_initial
    \/ ask_invalid
    \/ check_candidate
    \/ auto_install
    \/ ask_replacement
    \/ check_final
    \/ input
    \/ confirmed_install
    \/ return

Spec == Init /\ [][Next]_vars

\* every call returns: the program is one sequential thread and never waits
\* for anything but the call it is in
LiveSpec == Spec /\ WF_vars(Next)


(* --------------------- reading the log of an iteration ------------------ *)

Events(op) == { i \in 1..Len(log) : log[i].op = op }

Installs == Events("try_install")

DryRuns == Events("is_real_pypi_package")

Asks == Events("ask_ai_for_package")

Prompts == Events("input")

\* the direct attempt is the first try_install of the iteration
IsDirect(i) == i \in Installs /\ \A j \in Installs : i <= j

\* the iteration of `module` is over and the loop goes on
IterationOver == pc = "for" /\ module \in ModuleNames

(* --------------------------------- C1 ---------------------------------- *)

\* C1: the AI is asked at most 3 times for one module: at most once with
\* each of the three contexts (initial, last answer invalid, exists but
\* fails to install).
C1_AtMostThreeQueries ==
    /\ Cardinality(Asks) <= 3
    /\ \A n \in 1..3 : Cardinality({ i \in Asks : log[i].query = n }) <= 1

C1_Witness == Cardinality(Asks) = 3

(* --------------------------------- C2 ---------------------------------- *)

\* C2: a validated candidate of the initial query or of the 'last answer was
\* invalid' query is never passed to try_install before the prompt of that
\* module was answered yes.
C2_PromptBeforeCandidateInstall ==
    \A i \in Installs :
        (~IsDirect(i) /\ \A k \in Asks : k < i => log[k].query # 3)
        => \E j \in Prompts : j < i /\ accepted(lower(strip(log[j].answer)))

(* --------------------------------- C3 ---------------------------------- *)

\* an outcome the program does not recover from was drawn in this run
FatalOutcome ==
    \/ argc < 2
    \/ \E i \in 1..Len(log) :
         \/ /\ log[i].op \in {"extract_imports", "try_install",
                              "is_real_pypi_package"}
            /\ log[i].res \in {"raise", "FileNotFoundError"}
         \/ /\ log[i].op = "input"
            /\ log[i].answer = <<"EOFError">>

AllTerminal == \A m \in imports : outcome[m] \in {"Done", "Skip"}

\* C3: the run ends, and when only recoverable outcomes were drawn it ends
\* with every imported module Done or Skip and nothing left to process.
C3_EveryModuleTerminal ==
    <>(pc = "exit" /\ (~FatalOutcome => AllTerminal /\ todo = {}))

\* the run is over, a missing module was given up and the other one, taken
\* after it or before it, was installed
C3_Witness ==
    /\ pc = "exit"
    /\ ~FatalOutcome
    /\ \E m \in imports : classified[m] = "Missing" /\ outcome[m] = "Skip"
    /\ \E m \in imports : outcome[m] = "Done"

(* --------------------------------- C4 ---------------------------------- *)

WarningLines ==
    { "AI request failed", "is not a real PyPI package",
      "exists but failed to install", "No valid package name" }

\* the direct install failed and no suggestion got as far as an install
EveryPathFailed ==
    /\ IterationOver
    /\ classified[module] = "Missing"
    /\ Cardinality(Installs) = 1
    /\ \A i \in Installs : log[i].res = "Exception"

\* C4: a module whose every resolution path failed is Skip, the exit code
\* is still 0, the loop goes on, and exactly one warning line was printed
\* for it, as the last line of the module.
C4_OneTerminatingWarning ==
    EveryPathFailed =>
        /\ outcome[module] = "Skip"
        /\ exitCode = 0
        /\ Cardinality({ i \in 1..Len(out) : out[i] \in WarningLines }) = 1
        /\ out[Len(out)] \in WarningLines

(* --------------------------------- C5 ---------------------------------- *)

\* C5: the AI is asked for a module if and only if the direct install of
\* resolve_package(module) was attempted and failed: never for a module
\* classified StdLib or Installed, never after a direct install that
\* succeeded, and always once the direct install has failed.
C5_FallbackIffDirectFailed ==
    /\ \A i \in Asks :
         /\ classified[module] = "Missing"
         /\ \E j \in Installs : /\ j < i
                                /\ IsDirect(j)
                                /\ log[j] = Install(resolve_package(module),
                                                    "Exception")
    /\ \A j \in Installs :
         (IsDirect(j) /\ log[j].res = "Exception" /\ pc # "ask_initial")
         => Asks # {}

C5_Witness ==
    /\ IterationOver
    /\ Asks # {}
    /\ \E j \in Installs : IsDirect(j) /\ log[j].res = "Exception"


(* --------------------------------- C6 ---------------------------------- *)

\* C6: a module of the stdlib list is classified StdLib without being probed,
\* a module that is importable is classified Installed, and for neither of
\* them is there any install attempt, dry run, AI query or prompt; only a
\* module that is neither reaches the installer.
C6_NoActionUnlessMissing ==
    /\ \A m \in ModuleNames :
         classified[m] = "StdLib" <=> (m \in stdlib /\ outcome[m] # "Pending")
    /\ module \in ModuleNames =>
         /\ classified[module] = "StdLib" => log = <<>>
         /\ classified[module] \in {"StdLib", "Installed"} =>
              /\ Installs \cup DryRuns \cup Asks \cup Prompts = {}
              /\ outcome[module] = "Skip"
         /\ Installs \cup DryRuns \cup Asks \cup Prompts # {} =>
              /\ classified[module] = "Missing"
              /\ module \notin stdlib
              /\ log[1] = [op |-> "find_spec", res |-> "None"]

\* an importable module was passed over after a stdlib module was
C6_Witness ==
    /\ IterationOver
    /\ classified[module] = "Installed"
    /\ log = <<[op |-> "find_spec", res |-> "spec"]>>
    /\ \E m \in imports : classified[m] = "StdLib"

(* --------------------------------- C7 ---------------------------------- *)

PackageManagerUnavailable ==
    \E i \in Installs \cup DryRuns : log[i].res = "FileNotFoundError"

UncaughtException == out # <<>> /\ out[Len(out)] = "Traceback"

UsageOnly == out = <<"Usage">> /\ log = <<>> /\ imports = {}

\* C7 as stated: the exit code is 1 exactly when there is no script argument
\* (usage printed, nothing extracted or installed) or the package manager is
\* unavailable, and 0 otherwise.
C7_ExitOneOnlyUsageOrPip ==
    pc = "exit" =>
        /\ exitCode = (IF argc < 2 \/ PackageManagerUnavailable THEN 1 ELSE 0)
        /\ argc < 2 => UsageOnly

\* C7 as amended: the exit code is 0 on every normal completion, also with
\* modules left unresolved, and it is 1 exactly when there is no script
\* argument (usage printed, nothing extracted or installed), when the
\* package manager is unavailable, or when an exception escapes uncaught.
C7_ExitCodes ==
    pc = "exit" =>
        /\ exitCode = (IF \/ argc < 2
                          \/ PackageManagerUnavailable
                          \/ UncaughtException
                       THEN 1 ELSE 0)
        /\ argc < 2 => UsageOnly
        /\ exitCode = 0 => AllTerminal /\ todo = {}

\* exit code 1 with a script argument and a package manager that works
C7_Witness ==
    /\ pc = "exit"
    /\ exitCode = 1
    /\ argc >= 2
    /\ ~PackageManagerUnavailable
    /\ UncaughtException

(* --------------------------------- C8 ---------------------------------- *)

Guidance ==
    <<"pip not found", "ensurepip --upgrade", "install --upgrade pip">>

\* C8: a try_install that finds the package manager unavailable is the last
\* thing the process does: it prints the guidance and exits with 1. Every
\* other failure of try_install comes back to the caller, which goes on (it
\* asks the AI, or ends the iteration); the install is not attempted again
\* by the installer and the exit code stays 0.
C8_PipUnavailableIsFatal ==
    \A i \in Installs :
        /\ log[i].res = "FileNotFoundError" =>
             /\ i = Len(log)
             /\ pc = "exit"
             /\ exitCode = 1
             /\ Len(out) >= 3
             /\ SubSeq(out, Len(out) - 2, Len(out)) = Guidance
        /\ log[i].res = "Exception" =>
             /\ i < Len(log) => log[i + 1].op = "ask_ai_for_package"
             /\ i = Len(log) =>
                  /\ exitCode = 0
                  /\ pc \in {"ask_initial", "ask_replacement", "for", "exit"}
                  /\ pc = "exit" => todo = {}

\* the package manager vanished at the confirmed attempt, with a module
\* still to process
C8_Witness ==
    /\ Cardinality(Installs) = 3
    /\ log[Len(log)].op = "try_install"
    /\ log[Len(log)].res = "FileNotFoundError"
    /\ todo # {}

(* --------------------------------- C9 ---------------------------------- *)

\* C9: an AI call that fails, at any of the three queries, is reported and
\* ends the iteration of the module: nothing is installed, checked or asked
\* after it, the exit code stays 0 and the loop goes on.
C9_AIFailureIsNoSuggestion ==
    \A i \in Asks :
        log[i].reply.none =>
            /\ i = Len(log)
            /\ pc \in {"for", "exit"}
            /\ exitCode = 0
            /\ outcome[module] \in {"Done", "Skip"}
            /\ \E k \in 1..Len(out) : out[k] = "AI request failed"

\* the third query failed and another module is still to be processed
C9_Witness ==
    /\ pc = "for"
    /\ todo # {}
    /\ \E i \in Asks : log[i].query = 3 /\ log[i].reply.none

(* --------------------------------- C10 --------------------------------- *)

\* C10: resolve_package maps bs4, cv2, sklearn, PIL, yaml and Crypto to their
\* packages, never to the module name itself, and every other module name to
\* itself; the package of the direct install is resolve_package(module).
C10_ResolvePackage ==
    /\ resolve_package("bs4") = "beautifulsoup4"
    /\ resolve_package("cv2") = "opencv-python"
    /\ resolve_package("sklearn") = "scikit-learn"
    /\ resolve_package("PIL") = "pillow"
    /\ resolve_package("yaml") = "pyyaml"
    /\ resolve_package("Crypto") = "pycryptodome"
    /\ \A m \in {"bs4", "cv2", "sklearn", "PIL", "yaml", "Crypto"} :
         resolve_package(m) # m
    /\ \A m \in ModuleNames \ {"bs4", "cv2", "sklearn", "PIL", "yaml", "Crypto"} :
         resolve_package(m) = m
    /\ \A i \in Installs :
         IsDirect(i) => log[i].pkg = resolve_package(module)
    /\ pc \in {"ask_initial", "check_initial"} =>
         package = resolve_package(module)

C10_Witness ==
    /\ module = "cv2"
    /\ \E i \in Installs : IsDirect(i) /\ log[i].pkg = "opencv-python"

(* --------------------------------- C11 --------------------------------- *)

\* the answer is a single y or Y with blanks around it
IsYes(a) ==
    \E i \in 1..Len(a) :
        /\ a[i] \in {"y", "Y"}
        /\ \A j \in 1..Len(a) : j # i => a[j] = " "

\* event k is the dry run that accepts the name of the 'exists but fails to
\* install' query
ReplacementValidated(k) ==
    /\ k \in DryRuns
    /\ log[k].res = "ok"
    /\ k - 1 \in Asks
    /\ log[k - 1].query = 3

\* C11 as stated: a replacement that passes the dry run is installed
\* automatically: its install attempt follows the validation with no prompt
\* in between.
C11_ReplacementInstalledUnprompted ==
    \A k \in 1..Len(log) :
        (ReplacementValidated(k) /\ k < Len(log))
        => log[k + 1] \in { Install(log[k].pkg, res) : res \in InstallResults }

\* C11 as amended: a replacement that passes the dry run is not installed
\* automatically: the prompt follows its validation, and the install attempt
\* of the replacement happens only after the answer y.
C11_ReplacementInstalledAfterPrompt ==
    \A k \in 1..Len(log) :
        ReplacementValidated(k) =>
            /\ k = Len(log) => pc = "input"
            /\ k < Len(log) =>
                 /\ log[k + 1].op = "input"
                 /\ log[k + 1].pkg = log[k].pkg
            /\ k + 2 <= Len(log) =>
                 /\ IsYes(log[k + 1].answer)
                 /\ log[k + 2] \in { Install(log[k].pkg, res) :
                                        res \in InstallResults }
                 /\ k + 2 = Len(log)

\* the replacement was installed after the user agreed
C11_Witness ==
    \E k \in 1..Len(log) :
        /\ ReplacementValidated(k)
        /\ k + 2 = Len(log)
        /\ log[k + 2] = Install(log[k].pkg, "ok")

(* --------------------------------- C12 --------------------------------- *)

\* C12: a successful install ends the module: after a try_install that
\* succeeded there is no further install attempt, dry run, AI query or
\* prompt for that module, and the iteration is over.
C12_NothingAfterSuccess ==
    \A i \in Installs :
        log[i].res = "ok" =>
            /\ i = Len(log)
            /\ pc \in {"for", "exit"}
            /\ outcome[module] = "Done"

(* --------------------------------- C13 --------------------------------- *)

\* C13: every try_install of a name the AI suggested comes right after a dry
\* run of that same name that succeeded: nothing but the prompt lies between
\* the two, so no AI query and no later dry run does. A name whose latest
\* dry run failed, or a reply without a name, never reaches the installer.
C13_ValidatedBeforeInstall ==
    /\ \A i \in Installs :
         ~IsDirect(i) =>
             /\ log[i].pkg # None
             /\ \E k \in DryRuns :
                  /\ k < i
                  /\ log[k] = DryRun(log[i].pkg, "ok")
                  /\ \A j \in (k + 1)..(i - 1) : j \in Prompts
    /\ \A k \in DryRuns :
         log[k].res = "CalledProcessError" =>
             (k < Len(log) => log[k + 1].op = "ask_ai_for_package")
    /\ \A k \in Asks :
         re_search(log[k].reply) = None => k = Len(log)

\* the confirmed install of a replacement, a name other than the one that
\* was tried automatically
C13_Witness ==
    \E i \in Installs, j \in Installs :
        /\ ~IsDirect(j)
        /\ j < i
        /\ log[i].pkg # log[j].pkg
        /\ log[i - 1].op = "input"

(* --------------------------------- C14 --------------------------------- *)

\* event k is the dry run that rejects the name of the initial query
InitialRejected(k) ==
    /\ k \in DryRuns
    /\ log[k].res = "CalledProcessError"
    /\ k - 1 \in Asks
    /\ log[k - 1].query = 1

\* the re-query after event k gave no name, or a name the dry run rejected
RetryRejected(k) ==
    /\ k + 1 <= Len(log)
    /\ \/ re_search(log[k + 1].reply) = None
       \/ /\ k + 2 <= Len(log)
          /\ log[k + 2].res = "CalledProcessError"

\* C14: when the dry run rejects the name of the initial reply the AI is
\* asked again, once, with the 'last answer was invalid' context; when that
\* reply has no name or its name is rejected too, the module is given up:
\* it saw exactly 2 AI queries and 1 install attempt (the direct one), no
\* prompt, and nothing follows.
C14_OneRetryThenGiveUp ==
    \A k \in 1..Len(log) :
        InitialRejected(k) =>
            /\ k = Len(log) => pc = "ask_invalid"
            /\ k < Len(log) =>
                 /\ log[k + 1].op = "ask_ai_for_package"
                 /\ log[k + 1].query = 2
            /\ RetryRejected(k) =>
                 /\ pc \in {"for", "exit"}
                 /\ exitCode = 0
                 /\ Cardinality(Asks) = 2
                 /\ Cardinality(Installs) = 1
                 /\ \A i \in Installs : IsDirect(i)
                 /\ Prompts = {}
                 /\ outcome[module] = "Skip"

\* two names in a row were rejected by the dry run
C14_Witness ==
    \E k \in 1..Len(log) :
        /\ InitialRejected(k)
        /\ k + 2 = Len(log)
        /\ log[k + 2].op = "is_real_pypi_package"
        /\ log[k + 2].res = "CalledProcessError"
        /\ IterationOver

(* --------------------------------- C15 --------------------------------- *)

ReplacementAsks == { i \in Asks : log[i].query = 3 }

\* C15: the 'exists but fails to install' query is issued for a module if
\* and only if a name passed the dry run and its install attempt then
\* failed; it is issued at most once; the name it returns is dry-run before
\* any prompt or install, and a reply without a name or a rejected name is
\* followed by no install attempt.
C15_ReplacementQuery ==
    /\ \A i \in ReplacementAsks :
         /\ i - 1 \in Installs
         /\ ~IsDirect(i - 1)
         /\ log[i - 1].res = "Exception"
         /\ log[i - 2] = DryRun(log[i - 1].pkg, "ok")
    /\ \A j \in Installs :
         (~IsDirect(j) /\ log[j].res = "Exception")
         => (ReplacementAsks # {} \/ pc = "ask_replacement")
    /\ Cardinality(ReplacementAsks) <= 1
    /\ \A i \in ReplacementAsks :
         /\ i < Len(log) => log[i + 1] \in { DryRun(re_search(log[i].reply), res) :
                                               res \in DryRunResults }
         /\ re_search(log[i].reply) = None => i = Len(log)
         /\ (i < Len(log) /\ log[i + 1].res # "ok") => i + 1 = Len(log)

(* --------------------------------- C16 --------------------------------- *)

\* the call of an event, without the answer it got
Call(e) ==
    CASE e.op = "find_spec" -> [op |-> e.op, arg |-> None]
      [] e.op = "ask_ai_for_package" -> [op |-> e.op, arg |-> ToString(e.query)]
      [] OTHER -> [op |-> e.op, arg |-> e.pkg]

End == [op |-> "end", arg |-> None]

Exit == [op |-> "exit", arg |-> None]

\* what the resolution of module m does after the calls and answers of l,
\* the log of its own iteration, read off src/main.py 119-165
NextCall(m, l) ==
    LET n == Len(l)
        e == l[n]
        before == IF n > 1 THEN l[n - 1].op ELSE "none"
        direct == before = "find_spec"
        auto == before = "is_real_pypi_package"
        name == re_search(e.reply)
    IN  CASE e.op = "find_spec" ->
               IF e.res = "None"
               THEN [op |-> "try_install", arg |-> resolve_package(m)]
               ELSE End
          [] e.op = "try_install" ->
               CASE e.res = "FileNotFoundError" -> Exit
                 [] e.res = "ok" /\ auto ->
                      [op |-> "is_real_pypi_package", arg |-> e.pkg]
                 [] e.res = "Exception" /\ direct ->
                      [op |-> "ask_ai_for_package", arg |-> "1"]
                 [] e.res = "Exception" /\ auto ->
                      [op |-> "ask_ai_for_package", arg |-> "3"]
                 [] OTHER -> End
          [] e.op = "ask_ai_for_package" ->
               IF name = None THEN End
               ELSE [op |-> "is_real_pypi_package", arg |-> name]
          [] e.op = "is_real_pypi_package" ->
               CASE e.res = "FileNotFoundError" -> Exit
                 [] before = "ask_ai_for_package" /\ l[n - 1].query = 1 ->
                      IF e.res = "ok"
                      THEN [op |-> "is_real_pypi_package", arg |-> e.pkg]
                      ELSE [op |-> "ask_ai_for_package", arg |-> "2"]
                 [] before = "ask_ai_for_package" /\ l[n - 1].query = 3 ->
                      IF e.res = "ok"
                      THEN [op |-> "input", arg |-> e.pkg]
                      ELSE End
                 [] before = "try_install" ->
                      IF e.res = "ok"
                      THEN [op |-> "input", arg |-> e.pkg]
                      ELSE End
                 [] OTHER ->
                      IF e.res = "ok"
                      THEN [op |-> "try_install", arg |-> e.pkg]
                      ELSE End
          [] e.op = "input" ->
               CASE e.answer = <<"EOFError">> -> Exit
                 [] IsYes(e.answer) -> [op |-> "try_install", arg |-> e.pkg]
                 [] OTHER -> End
          [] OTHER -> End

\* the log is the log of an iteration that probed its module
Resolving == log # <<>> /\ log[1].op = "find_spec"

C17_BoundedSideEffects ==
    /\ Cardinality(Installs) <= 3
    /\ Cardinality(DryRuns) <= 3
    /\ Cardinality(Prompts) <= 1
    /\ \A i \in Installs :
         \/ IsDirect(i)
         \/ log[i - 1].op = "is_real_pypi_package"
         \/ log[i - 1].op = "input"
    /\ (module \in ModuleNames /\ classified[module] # "Missing") =>
         Installs \cup DryRuns \cup Prompts = {}

\* a module that used up all of them
C17_Witness ==
    /\ Cardinality(Installs) = 3
    /\ Cardinality(DryRuns) = 3
    /\ Cardinality(Prompts) = 1

(* --------------------------------- C18 --------------------------------- *)

\* C18: after the prompt the shown name is installed if and only if the
\* answer, stripped and lower-cased, is y; any other answer, the empty one
\* included, is a decline: no install follows, 'Skipped installing
\* alternative' is printed, the exit code stays 0 and the loop goes on.
C18_OnlyYesInstalls ==
    \A j \in Prompts :
        log[j].answer # <<"EOFError">> =>
            IF IsYes(log[j].answer)
            THEN /\ j = Len(log) => pc = "confirmed_install"
                 /\ j < Len(log) =>
                      log[j + 1] \in { Install(log[j].pkg, res) :
                                          res \in InstallResults }
            ELSE /\ j = Len(log)
                 /\ pc \in {"for", "exit"}
                 /\ exitCode = 0
                 /\ out[Len(out)] = "Skipped installing alternative"
                 /\ Cardinality({ k \in 1..Len(out) :
                        out[k] = "Skipped installing alternative" }) = 1

\* the empty answer was taken as a decline, with a module still to process
C18_Witness ==
    /\ IterationOver
    /\ todo # {}
    /\ \E j \in Prompts : j = Len(log) /\ log[j].answer = <<>>
    /\ out[Len(out)] = "Skipped installing alternative"

====
